---- MODULE Spec2Model ----
\* ditter: a Cloudflare Worker that receives signed Discord interactions,
\* keeps a follower list per user in the `followers` KV namespace, a delivery
\* URL per user in the `webhooks` KV namespace, and fans a "deet" out to the
\* webhooks of the invoking user's followers (src/src/index.ts).
EXTENDS Integers, Sequences, FiniteSets, TLC

\* ---------------------------------------------------------------- bounds
NumUsers == 2       \* user ids are 1..NumUsers
NumUrls == 2        \* webhook URLs are 1..NumUrls
NumContents == 1    \* deet contents are 1..NumContents
MaxConc == 2        \* requests in flight at the same time
MaxReq == 4         \* requests received in one behaviour

Users == 1..NumUsers
Urls == 1..NumUrls
Contents == 1..NumContents
Slots == 1..MaxConc

\* ------------------------------------------------- discord-api-types enums
Ping == 1                       \* InteractionType.Ping
ApplicationCommand == 2         \* InteractionType.ApplicationCommand
MessageComponent == 3           \* InteractionType.MessageComponent
ChatInput == 1                  \* ApplicationCommandType.ChatInput
User == 2                       \* ApplicationCommandType.User
Message == 3                    \* ApplicationCommandType.Message
Pong == 1                       \* InteractionResponseType.Pong
ChannelMessageWithSource == 4   \* InteractionResponseType.ChannelMessageWithSource
Ephemeral == 64                 \* MessageFlags.Ephemeral

\* ------------------------------------------------------------ pure helpers
Range(q) == {q[i] : i \in 1..Len(q)}

Count(q, x) == Cardinality({i \in 1..Len(q) : q[i] = x})

NoDup(q) == \A i, j \in 1..Len(q) : q[i] = q[j] => i = j

\* new Set(array): the distinct elements in order of first occurrence
RECURSIVE NewSet(_)
NewSet(q) ==
    IF q = <<>> THEN <<>>
    ELSE LET front == NewSet(SubSeq(q, 1, Len(q) - 1))
             last == q[Len(q)]
         IN  IF last \in Range(front) THEN front ELSE Append(front, last)

SetAddDup(set, x) == Append(set, x)

\* Set.prototype.add: insertion-ordered, no effect when x is present
SetAdd(set, x) == IF x \in Range(set) THEN set ELSE Append(set, x)

SetDeleteFirst(set, x) == IF set = <<>> THEN set ELSE Tail(set)

\* Set.prototype.delete: no effect when x is absent
SetDelete(set, x) == SelectSeq(set, LAMBDA y : y # x)

\* `value ?? []` on the result of followers.get(key, 'json'); an absent key
\* reads as null, modelled as the empty option <<>>, a present one as <<array>>
OrEmpty(got) == IF got = <<>> THEN <<>> ELSE got[1]

\* ------------------------------------------------------------- responses
NoResp == <<>>

ErrorResponse(msg) == [status |-> 500, type |-> 0, content |-> <<msg>>, flags |-> 0]

JsonResponse(type, content, flags) ==
    [status |-> 200, type |-> type, content |-> content, flags |-> flags]

handlePingAck == JsonResponse(ChannelMessageWithSource, <<"pong">>, Ephemeral)

handlePing == JsonResponse(Pong, <<>>, 0)

EphemeralMessage(content) == JsonResponse(ChannelMessageWithSource, content, Ephemeral)

\* --------------------------------------------------------------- requests
\* The invoking user's APIUser object, a function of the id: user 1 has an
\* avatar hash, the others have none.
ApiUser(id) ==
    [id |-> id, username |-> id, discriminator |-> id,
     avatar |-> IF id = 1 THEN <<"hash">> ELSE <<>>]

NoInput ==
    [method |-> "", sig |-> "", ts |-> "", type |-> 0, dtype |-> 0, name |-> "",
     member |-> 0, user |-> 0, target |-> 0, url |-> 0, content |-> 0]

\* A command invoked by user u: user 1 invokes from a guild (message.member.user),
\* the other users from a direct message (message.user).
Command(dtype, name, u, target, url, content) ==
    [method |-> "POST", sig |-> "good", ts |-> "some", type |-> ApplicationCommand,
     dtype |-> dtype, name |-> name,
     member |-> IF u = 1 THEN u ELSE 0, user |-> IF u = 1 THEN 0 ELSE u,
     target |-> target, url |-> url, content |-> content]

FollowInputs == {Command(User, n, u, t, 0, 0) : n \in {"Follow", "Unfollow"}, u \in Users, t \in Users}

SetWebhookInputs == {Command(ChatInput, "setwebhook", u, 0, w, 0) : u \in Users, w \in Urls}

DeetInputs == {Command(ChatInput, "deet", u, 0, 0, c) : u \in Users, c \in Contents}

PingInput == [Command(0, "", 0, 0, 0, 0) EXCEPT !.type = Ping]

ShapeInputs ==
    { [Command(0, "", 1, 0, 0, 0) EXCEPT !.type = MessageComponent],
      Command(Message, "Follow", 1, 1, 0, 0),
      Command(User, "Block", 1, 1, 0, 0),
      Command(ChatInput, "follow", 1, 0, 1, 1) }

\* A Follow whose signature header, timestamp header or signature is wrong.
UnsignedInputs ==
    { [Command(User, "Follow", 1, 1, 0, 0) EXCEPT !.sig = h[1], !.ts = h[2]] :
        h \in {<<"none", "none">>, <<"none", "some">>, <<"bad", "some">>,
               <<"bad", "none">>, <<"good", "none">>} }

NonPostInputs ==
    { [Command(User, "Follow", 1, 1, 0, 0) EXCEPT !.method = "GET", !.sig = g] :
        g \in {"good", "none"} }

Inputs ==
    FollowInputs \cup SetWebhookInputs \cup DeetInputs \cup {PingInput}
        \cup ShapeInputs \cup UnsignedInputs \cup NonPostInputs

verifyKeyNoTimestamp(in) == in.sig = "good"

\* verifyKey(body, signature, timestamp, DISCORD_PUBLIC_KEY): the signature
\* header must be a signature over timestamp + body; a null header verifies
\* nothing
verifyKey(in) == in.sig = "good" /\ in.ts = "some"

\* message.member?.user ?? message.user!
InvokingUser(in) == IF in.member # 0 THEN in.member ELSE in.user

\* ------------------------------------------------------------------ state
\* KV namespace: target id -> <<>> (absent) or <<array of follower ids>>
VARIABLE followers
\* KV namespace: user id -> <<>> (absent) or <<url>>
VARIABLE webhooks
\* the requests in flight, one per slot
VARIABLE req
\* requests received so far
VARIABLE nreq
\* history: user id -> the urls of its last two completed setwebhook, oldest first
VARIABLE whHist

vars == <<followers, webhooks, req, nreq, whHist>>

Idle ==
    [pc |-> "idle", in |-> NoInput, parsed |-> FALSE, ops |-> {}, resp |-> NoResp,
     existing |-> <<>>, written |-> <<>>, put |-> "none", att |-> <<>>, due |-> {},
     later |-> FALSE]

Init ==
    /\ followers = [t \in Users |-> <<>>]
    /\ webhooks = [u \in Users |-> <<>>]
    /\ req = [s \in Slots |-> Idle]
    /\ nreq = 0
    /\ whHist = [u \in Users |-> <<>>]

\* ------------------------------------------------ handlers (synchronous parts)
\* A request's record after its handler returned `response`
Reply(r, response) == [r EXCEPT !.pc = "done", !.resp = <<response>>]

\* ... and after it threw: handleRequest(...).catch(handleError) answers 500
handleError(r, msg) == Reply(r, ErrorResponse(msg))

Get(r, ns, key) == [r EXCEPT !.ops = @ \cup {<<ns, "get", key>>}]

Put(r, ns, key) == [r EXCEPT !.ops = @ \cup {<<ns, "put", key>>}]

\* follow / unfollow up to `await followers.get(targetId, 'json')`
followStart(r) == [Get(r, "followers", r.in.target) EXCEPT !.pc = "get"]

\* follow from the resolution of followers.get on: add, put (not awaited), return
follow(r, got) ==
    LET existing == NewSet(OrEmpty(got))
    IN  Reply([Put(r, "followers", r.in.target) EXCEPT
                  !.existing = <<existing>>,
                  !.written = <<SetAdd(existing, InvokingUser(r.in))>>,
                  !.put = "pending"],
              EphemeralMessage(<<"followed", r.in.target>>))

\* unfollow from the resolution of followers.get on: delete, put (not awaited), return
unfollow(r, got) ==
    LET existing == NewSet(OrEmpty(got))
    IN  Reply([Put(r, "followers", r.in.target) EXCEPT
                  !.existing = <<existing>>,
                  !.written = <<SetDelete(existing, InvokingUser(r.in))>>,
                  !.put = "pending"],
              EphemeralMessage(<<"unfollowed", r.in.target>>))

handleUserCommandDefaultFollow(r) ==
    CASE r.in.name = "Unfollow" -> followStart(r)
      [] OTHER -> followStart(r)

handleUserCommand(r) ==
    CASE r.in.name = "Follow" -> followStart(r)
      [] r.in.name = "Unfollow" -> followStart(r)
      [] OTHER -> handleError(r, "invalid user command")

\* setWebhook up to `await webhooks.put(user.id, url.value)`
setWebhookStart(r) == [Put(r, "webhooks", InvokingUser(r.in)) EXCEPT !.pc = "put"]

\* sendDeet up to `await followers.get(user.id, 'json')`
sendDeetStart(r) == [Get(r, "followers", InvokingUser(r.in)) EXCEPT !.pc = "get"]

handleChatInput(r) ==
    CASE r.in.name = "deet" -> sendDeetStart(r)
      [] r.in.name = "setwebhook" -> setWebhookStart(r)
      [] OTHER -> handleError(r, "invalid chat input option")

handleApplicationCommand(r) ==
    CASE r.in.dtype = User -> handleUserCommand(r)
      [] r.in.dtype = ChatInput -> handleChatInput(r)
      [] OTHER -> handleError(r, "invalid interaction type")

\* handleInteraction from the resolution of request.text() on
handleInteraction(r) ==
    IF ~verifyKey(r.in) THEN handleError(r, "Invalid signature")
    ELSE LET m == [r EXCEPT !.parsed = TRUE]
         IN  CASE m.in.type = Ping -> Reply(m, handlePing)
               [] m.in.type = ApplicationCommand -> handleApplicationCommand(m)
               [] OTHER -> handleError(m, "invalid interaction type")

\* ------------------------------------------------------- sendDeet fan-out
\* the RESTPostAPIWebhookWithTokenJSONBody built for the invoking user
WebhookBody(in) ==
    LET user == ApiUser(InvokingUser(in))
    IN  [username |-> <<user.username, "#", user.discriminator>>,
         avatar_url |-> IF user.avatar # <<>> THEN <<user.id, user.avatar[1]>> ELSE <<>>,
         content |-> in.content,
         allowed_mentions |-> [parse |-> <<>>]]

Attempt(follower) ==
    [follower |-> follower, st |-> "get", url |-> 0, sent |-> <<>>, out |-> "none"]

Settled(a) == a.st \in {"settled", "rejected"}

PromiseAllLate(r) ==
    IF r.att # <<>> /\ \A i \in 1..Len(r.att) : Settled(r.att[i])
    THEN Reply(r, EphemeralMessage(<<"deet sent">>))
    ELSE IF r.pc = "all" /\ \E i \in 1..Len(r.att) : r.att[i].st = "rejected"
         THEN handleError(r, "KV error")
         ELSE IF r.pc = "all" /\ r.att = <<>> THEN Reply(r, EphemeralMessage(<<"deet sent">>))
              ELSE r

\* `await Promise.all(...)`: rejects with the first rejection, resolves when
\* every callback has resolved
PromiseAllStrict(r) ==
    IF r.pc # "all" THEN r
    ELSE IF \E i \in 1..Len(r.att) : r.att[i].st = "rejected"
         THEN handleError(r, "KV error")
         ELSE IF \A i \in 1..Len(r.att) : r.att[i].out \in {"skipped", "ok"}
              THEN Reply(r, EphemeralMessage(<<"deet sent">>))
              ELSE r

PromiseAll(r) ==
    IF r.pc # "all" THEN r
    ELSE IF \E i \in 1..Len(r.att) : r.att[i].st = "rejected"
         THEN handleError(r, "KV error")
         ELSE IF \A i \in 1..Len(r.att) : r.att[i].st = "settled"
              THEN Reply(r, EphemeralMessage(<<"deet sent">>))
              ELSE r

sendDeetNoJoin(r, got) ==
    [r EXCEPT
        !.pc = "all",
        !.existing = <<OrEmpty(got)>>,
        !.att = [i \in 1..Len(OrEmpty(got)) |-> Attempt(OrEmpty(got)[i])],
        !.ops = @ \cup {<<"webhooks", "get", OrEmpty(got)[i]>> : i \in 1..Len(OrEmpty(got))}]

sendDeetEveryone(r, got) ==
    LET f == [i \in 1..NumUsers |-> i]
    IN  PromiseAll([r EXCEPT
            !.pc = "all",
            !.existing = <<OrEmpty(got)>>,
            !.att = [i \in 1..Len(f) |-> Attempt(f[i])],
            !.ops = @ \cup {<<"webhooks", "get", f[i]>> : i \in 1..Len(f)}])

\* sendDeet from the resolution of followers.get on: f.map starts every
\* callback, each runs up to its `await webhooks.get(follower)`
sendDeet(r, got) ==
    LET f == OrEmpty(got)
    IN  PromiseAll([r EXCEPT
            !.pc = "all",
            !.existing = <<f>>,
            !.att = [i \in 1..Len(f) |-> Attempt(f[i])],
            !.ops = @ \cup {<<"webhooks", "get", f[i]>> : i \in 1..Len(f)}])

\* the callback from the resolution of webhooks.get on, up to `await fetch`
Deliver(r, a, got) ==
    IF got = <<>> THEN [a EXCEPT !.st = "settled", !.out = "skipped"]
    ELSE [a EXCEPT !.st = "fetch", !.url = got[1],
                   !.sent = Append(@, [url |-> got[1], body |-> WebhookBody(r.in)])]

FetchDoneRetry(a, o) ==
    CASE o = "ok" -> [a EXCEPT !.st = "settled", !.out = "ok"]
      [] o = "notok" -> [a EXCEPT !.st = "text"]
      [] OTHER -> IF Len(a.sent) < 2 THEN [a EXCEPT !.sent = Append(@, @[1])]
                  ELSE [a EXCEPT !.st = "settled", !.out = "exception"]

FetchDoneThrow(a, o) ==
    CASE o = "ok" -> [a EXCEPT !.st = "settled", !.out = "ok"]
      [] o = "notok" -> [a EXCEPT !.st = "text"]
      [] OTHER -> [a EXCEPT !.st = "rejected", !.out = "exception"]

\* the callback from the settling of fetch on: ok, a non-OK status (then
\* `await res.text()`), or an exception caught by the try
FetchDone(a, o) ==
    CASE o = "ok" -> [a EXCEPT !.st = "settled", !.out = "ok"]
      [] o = "notok" -> [a EXCEPT !.st = "text"]
      [] OTHER -> [a EXCEPT !.st = "settled", !.out = "exception"]

\* ---------------------------------------------------------------- actions
LastTwo(q) == IF Len(q) > 2 THEN SubSeq(q, Len(q) - 1, Len(q)) ELSE q

IsFollow(r) == r.in.dtype = User /\ r.in.name \in {"Follow", "Unfollow"}

IsDeet(r) == r.in.dtype = ChatInput /\ r.in.name = "deet"

\* history, taken when a deet arrives: the users with a registered url whose
\* Follow of the deet's invoker has been acknowledged by then
Due(in) ==
    IF in.dtype = ChatInput /\ in.name = "deet"
    THEN {a \in Users :
            /\ webhooks[a] # <<>>
            /\ \E t \in Slots :
                  /\ req[t].pc = "done"
                  /\ req[t].in.dtype = User /\ req[t].in.name = "Follow"
                  /\ req[t].resp = <<EphemeralMessage(<<"followed", InvokingUser(in)>>)>>
                  /\ InvokingUser(req[t].in) = a
                  /\ req[t].in.target = InvokingUser(in)}
    ELSE {}

\* history: an Unfollow in flight records that a signed Follow on the same
\* target arrived after it
NoteLater(in) ==
    [t \in Slots |->
        IF /\ in.method = "POST" /\ in.sig = "good" /\ in.ts = "some"
           /\ in.type = ApplicationCommand /\ in.dtype = User /\ in.name = "Follow"
           /\ req[t].pc # "idle"
           /\ req[t].in.dtype = User /\ req[t].in.name = "Unfollow"
           /\ req[t].in.target = in.target
        THEN [req[t] EXCEPT !.later = TRUE]
        ELSE req[t]]

ReceiveAnyMethod(s, in) ==
    /\ req[s].pc = "idle"
    /\ \A t \in Slots : t < s => req[t].pc # "idle"
    /\ nreq < MaxReq
    /\ nreq' = nreq + 1
    /\ req' = [NoteLater(in) EXCEPT ![s] = [Idle EXCEPT !.in = in, !.pc = "text", !.due = Due(in)]]
    /\ UNCHANGED <<followers, webhooks, whHist>>

\* fetch event: handleRequest -> handleInteraction up to `await request.text()`
Receive(s, in) ==
    /\ req[s].pc = "idle"
    /\ \A t \in Slots : t < s => req[t].pc # "idle"
    /\ nreq < MaxReq
    /\ nreq' = nreq + 1
    /\ req' = [NoteLater(in) EXCEPT ![s] =
                  IF in.method # "POST"
                  THEN handleError([Idle EXCEPT !.in = in], "Expected POST request")
                  ELSE [Idle EXCEPT !.in = in, !.pc = "text", !.due = Due(in)]]
    /\ UNCHANGED <<followers, webhooks, whHist>>

\* request.text() resolves: verify, parse, dispatch
ReadBody(s) ==
    /\ req[s].pc = "text"
    /\ req' = [req EXCEPT ![s] = handleInteraction(@)]
    /\ UNCHANGED <<followers, webhooks, nreq, whHist>>

\* followers.get resolves in follow / unfollow
FollowersGet(s) ==
    /\ req[s].pc = "get"
    /\ IsFollow(req[s])
    /\ req' = [req EXCEPT ![s] =
                  IF @.in.name = "Follow" THEN follow(@, followers[@.in.target])
                  ELSE unfollow(@, followers[@.in.target])]
    /\ UNCHANGED <<followers, webhooks, nreq, whHist>>

\* followers.get resolves in sendDeet
DeetFollowersGet(s) ==
    /\ req[s].pc = "get"
    /\ IsDeet(req[s])
    /\ req' = [req EXCEPT ![s] = sendDeet(@, followers[InvokingUser(@.in)])]
    /\ UNCHANGED <<followers, webhooks, nreq, whHist>>

\* an awaited followers.get rejects: the handler throws
FollowersGetFail(s) ==
    /\ req[s].pc = "get"
    /\ req' = [req EXCEPT ![s] = handleError(@, "KV error")]
    /\ UNCHANGED <<followers, webhooks, nreq, whHist>>

FollowersPutMerge(s) ==
    /\ req[s].put = "pending"
    /\ followers' = [followers EXCEPT ![req[s].in.target] =
                         IF req[s].in.name = "Follow"
                         THEN <<SetAdd(OrEmpty(@), InvokingUser(req[s].in))>>
                         ELSE <<SetDelete(OrEmpty(@), InvokingUser(req[s].in))>>]
    /\ req' = [req EXCEPT ![s].put = "applied"]
    /\ UNCHANGED <<webhooks, nreq, whHist>>

FollowersPutOwnKey(s) ==
    /\ req[s].put = "pending"
    /\ followers' = [followers EXCEPT ![InvokingUser(req[s].in)] = req[s].written]
    /\ req' = [req EXCEPT ![s].put = "applied"]
    /\ UNCHANGED <<webhooks, nreq, whHist>>

\* the store applies the put that follow / unfollow issued and did not await
FollowersPut(s) ==
    /\ req[s].put = "pending"
    /\ followers' = [followers EXCEPT ![req[s].in.target] = req[s].written]
    /\ req' = [req EXCEPT ![s].put = "applied"]
    /\ UNCHANGED <<webhooks, nreq, whHist>>

\* ... or that put rejects, which nothing observes
FollowersPutFail(s) ==
    /\ req[s].put = "pending"
    /\ req' = [req EXCEPT ![s].put = "failed"]
    /\ UNCHANGED <<followers, webhooks, nreq, whHist>>

WebhooksPutIfAbsent(s) ==
    /\ req[s].pc = "put"
    /\ webhooks' = [webhooks EXCEPT ![InvokingUser(req[s].in)] =
                       IF @ = <<>> THEN <<req[s].in.url>> ELSE @]
    /\ whHist' = [whHist EXCEPT ![InvokingUser(req[s].in)] = LastTwo(Append(@, req[s].in.url))]
    /\ req' = [req EXCEPT ![s] = Reply(@, EphemeralMessage(<<"webhook set">>))]
    /\ UNCHANGED <<followers, nreq>>

\* webhooks.put resolves in setWebhook
WebhooksPut(s) ==
    /\ req[s].pc = "put"
    /\ webhooks' = [webhooks EXCEPT ![InvokingUser(req[s].in)] = <<req[s].in.url>>]
    /\ whHist' = [whHist EXCEPT ![InvokingUser(req[s].in)] = LastTwo(Append(@, req[s].in.url))]
    /\ req' = [req EXCEPT ![s] = Reply(@, EphemeralMessage(<<"webhook set">>))]
    /\ UNCHANGED <<followers, nreq>>

\* webhooks.put rejects in setWebhook: the handler throws
WebhooksPutFail(s) ==
    /\ req[s].pc = "put"
    /\ req' = [req EXCEPT ![s] = handleError(@, "KV error")]
    /\ UNCHANGED <<followers, webhooks, nreq, whHist>>

\* webhooks.get resolves in the callback of follower i
WebhooksGet(s, i) ==
    /\ i \in 1..Len(req[s].att)
    /\ req[s].att[i].st = "get"
    /\ req' = [req EXCEPT ![s] =
                  PromiseAll([@ EXCEPT !.att[i] = Deliver(req[s], @, webhooks[@.follower])])]
    /\ UNCHANGED <<followers, webhooks, nreq, whHist>>

\* webhooks.get rejects in the callback of follower i: the callback rejects
WebhooksGetFail(s, i) ==
    /\ i \in 1..Len(req[s].att)
    /\ req[s].att[i].st = "get"
    /\ req' = [req EXCEPT ![s] =
                  PromiseAll([@ EXCEPT !.att[i].st = "rejected", !.att[i].out = "rejected"])]
    /\ UNCHANGED <<followers, webhooks, nreq, whHist>>

\* fetch settles in the callback of follower i
FetchSettle(s, i, o) ==
    /\ i \in 1..Len(req[s].att)
    /\ req[s].att[i].st = "fetch"
    /\ req' = [req EXCEPT ![s] = PromiseAll([@ EXCEPT !.att[i] = FetchDone(@, o)])]
    /\ UNCHANGED <<followers, webhooks, nreq, whHist>>

\* res.text() settles after a non-OK status; the throw is caught either way
TextSettle(s, i) ==
    /\ i \in 1..Len(req[s].att)
    /\ req[s].att[i].st = "text"
    /\ req' = [req EXCEPT ![s] =
                  PromiseAll([@ EXCEPT !.att[i].st = "settled", !.att[i].out = "notok"])]
    /\ UNCHANGED <<followers, webhooks, nreq, whHist>>

\* event.respondWith: the response is delivered and the request's I/O is over
Respond(s) ==
    /\ req[s].pc = "done"
    /\ req[s].put # "pending"
    /\ \A i \in 1..Len(req[s].att) : Settled(req[s].att[i])
    /\ req' = [req EXCEPT ![s] = Idle]
    /\ UNCHANGED <<followers, webhooks, nreq, whHist>>

Next ==
    \/ \E s \in Slots, in \in Inputs : Receive(s, in)
    \/ \E s \in Slots : ReadBody(s)
    \/ \E s \in Slots : FollowersGet(s)
    \/ \E s \in Slots : DeetFollowersGet(s)
    \/ \E s \in Slots : FollowersGetFail(s)
    \/ \E s \in Slots : FollowersPut(s)
    \/ \E s \in Slots : FollowersPutFail(s)
    \/ \E s \in Slots : WebhooksPut(s)
    \/ \E s \in Slots : WebhooksPutFail(s)
    \/ \E s \in Slots, i \in 1..NumUsers : WebhooksGet(s, i)
    \/ \E s \in Slots, i \in 1..NumUsers : WebhooksGetFail(s, i)
    \/ \E s \in Slots, i \in 1..NumUsers, o \in {"ok", "notok", "exception"} : FetchSettle(s, i, o)
    \/ \E s \in Slots, i \in 1..NumUsers : TextSettle(s, i)
    \/ \E s \in Slots : Respond(s)

Spec == Init /\ [][Next]_vars

\* every awaited call of a request settles: the body read, the followers read
\* of a broadcast, each webhooks lookup, each fetch and each res.text()
Settles(s) ==
    /\ WF_vars(ReadBody(s))
    /\ WF_vars(DeetFollowersGet(s) \/ (IsDeet(req[s]) /\ FollowersGetFail(s)))
    /\ \A i \in 1..NumUsers :
          /\ WF_vars(WebhooksGet(s, i) \/ WebhooksGetFail(s, i))
          /\ WF_vars(\E o \in {"ok", "notok", "exception"} : FetchSettle(s, i, o))
          /\ WF_vars(TextSettle(s, i))

\* the requests of a behaviour in which every awaited call settles
MaxFairReq == 3

FairNext ==
    \/ \E s \in Slots, in \in Inputs : nreq < MaxFairReq /\ Receive(s, in)
    \/ \E s \in Slots : ReadBody(s)
    \/ \E s \in Slots : FollowersGet(s)
    \/ \E s \in Slots : DeetFollowersGet(s)
    \/ \E s \in Slots : FollowersGetFail(s)
    \/ \E s \in Slots : FollowersPut(s)
    \/ \E s \in Slots : FollowersPutFail(s)
    \/ \E s \in Slots : WebhooksPut(s)
    \/ \E s \in Slots : WebhooksPutFail(s)
    \/ \E s \in Slots, i \in 1..NumUsers : WebhooksGet(s, i)
    \/ \E s \in Slots, i \in 1..NumUsers : WebhooksGetFail(s, i)
    \/ \E s \in Slots, i \in 1..NumUsers, o \in {"ok", "notok", "exception"} : FetchSettle(s, i, o)
    \/ \E s \in Slots, i \in 1..NumUsers : TextSettle(s, i)
    \/ \E s \in Slots : Respond(s)

FairSpec == Init /\ [][FairNext]_vars /\ \A s \in Slots : Settles(s)

\* ----------------------------------------------------------------- claims
Active(r) == r.pc # "idle"

Verified(r) == Active(r) /\ r.in.method = "POST" /\ r.in.sig = "good" /\ r.in.ts = "some"

Unsigned(r) ==
    Active(r) /\ r.in.method = "POST"
        /\ (r.in.sig = "none" \/ r.in.ts = "none" \/ r.in.sig = "bad")

IsAck(resp, content) ==
    /\ resp # <<>>
    /\ resp[1].status = 200
    /\ resp[1].type = ChannelMessageWithSource
    /\ resp[1].flags = Ephemeral
    /\ resp[1].content = content

IsError(resp) == resp # <<>> /\ resp[1].status = 500

\* C1: a POST request whose signature header or timestamp header is missing, or
\* whose signature does not verify, is only ever waiting for its body or
\* rejected with HTTP 500; its body is never parsed and it never issues a get
\* or a put on either store, before or after the rejection.
C1_SignatureGate ==
    \A s \in Slots :
        Unsigned(req[s]) =>
            /\ req[s].pc \in {"text", "done"}
            /\ req[s].pc = "done" => IsError(req[s].resp)
            /\ ~req[s].parsed
            /\ req[s].ops = {}
            /\ req[s].put = "none"
            /\ req[s].att = <<>>

C1_Witness ==
    \E s, t \in Slots :
        /\ Unsigned(req[s]) /\ req[s].in.sig = "good" /\ req[s].in.ts = "none"
        /\ req[s].pc = "done"
        /\ Unsigned(req[t]) /\ req[t].in.sig = "bad"
        /\ req[t].pc = "done"

\* C2: a verified Ping is answered {type: Pong} and, at every point of its
\* life, has issued no get and no put on either store and has no write pending.
C2_PingPong ==
    \A s \in Slots :
        Verified(req[s]) /\ req[s].in.type = Ping =>
            /\ req[s].pc \in {"text", "done"}
            /\ req[s].ops = {}
            /\ req[s].put = "none"
            /\ req[s].att = <<>>
            /\ req[s].pc = "done" =>
                   /\ req[s].resp # <<>>
                   /\ req[s].resp[1].status = 200
                   /\ req[s].resp[1].type = Pong
                   /\ req[s].resp[1].content = <<>>

C2_Witness ==
    \E s \in Slots :
        /\ Verified(req[s]) /\ req[s].in.type = Ping /\ req[s].pc = "done"
        /\ \E t \in Users : followers[t] # <<>>

FollowOf(r, name) == Verified(r) /\ r.in.type = ApplicationCommand /\ r.in.dtype = User /\ r.in.name = name

\* Follow b runs after Follow a of the same follower and target: a's write is
\* applied and b read exactly what a stored
FollowedTwice(a, b) ==
    /\ a # b
    /\ FollowOf(req[a], "Follow") /\ FollowOf(req[b], "Follow")
    /\ req[a].in.target = req[b].in.target
    /\ InvokingUser(req[a].in) = InvokingUser(req[b].in)
    /\ req[a].put = "applied"
    /\ req[b].existing # <<>>
    /\ req[b].existing = req[a].written

\* C3: when Follow(F, T) runs a second time on the set the first run stored,
\* the second run writes the same array the first one wrote, F occurs in it
\* exactly once, and applying the second write leaves the stored value as the
\* first run left it.
C3_FollowIdempotent ==
    /\ [](\A a, b \in Slots :
            FollowedTwice(a, b) =>
                /\ req[b].written = req[a].written
                /\ Count(req[b].written[1], InvokingUser(req[b].in)) = 1)
    /\ [][\A a, b \in Slots :
            FollowedTwice(a, b) /\ req[b].put = "pending" /\ req'[b].put = "applied" =>
                followers'[req[b].in.target] = req[a].written]_vars

C3_Witness ==
    \E a, b \in Slots :
        /\ FollowedTwice(a, b)
        /\ req[b].put = "applied"
        /\ Len(req[a].written[1]) = 2
        /\ followers[req[b].in.target] = req[a].written

\* C4: an Unfollow(F, T) that read a follower set without F writes an array
\* with the same set of ids (an absent key read as the empty set), the store
\* holds that set once the write is applied, and the handler returns its
\* ephemeral "unfollowed" acknowledgement, not an error.
C4_UnfollowAbsentNoOp ==
    /\ [](\A s \in Slots :
            ( /\ FollowOf(req[s], "Unfollow")
              /\ req[s].existing # <<>>
              /\ InvokingUser(req[s].in) \notin Range(req[s].existing[1]) ) =>
                /\ Range(req[s].written[1]) = Range(req[s].existing[1])
                /\ req[s].pc = "done"
                /\ IsAck(req[s].resp, <<"unfollowed", req[s].in.target>>))
    /\ [][\A s \in Slots :
            ( /\ FollowOf(req[s], "Unfollow")
              /\ req[s].existing # <<>>
              /\ InvokingUser(req[s].in) \notin Range(req[s].existing[1])
              /\ req[s].put = "pending" /\ req'[s].put = "applied" ) =>
                /\ Range(OrEmpty(followers'[req[s].in.target])) = Range(req[s].existing[1])
                /\ OrEmpty(followers[req[s].in.target]) = req[s].existing[1] =>
                       Range(OrEmpty(followers'[req[s].in.target]))
                           = Range(OrEmpty(followers[req[s].in.target]))]_vars

C4_Witness ==
    \E s \in Slots :
        /\ FollowOf(req[s], "Unfollow")
        /\ req[s].existing # <<>>
        /\ req[s].existing[1] # <<>>
        /\ InvokingUser(req[s].in) \notin Range(req[s].existing[1])
        /\ req[s].put = "applied"
        /\ followers[req[s].in.target] = req[s].existing

\* C5: the array stored under every key of the followers namespace holds each
\* follower id at most once.
C5_NoDuplicateFollowers ==
    \A t \in Users : followers[t] # <<>> => NoDup(followers[t][1])

C5_Witness ==
    \E t \in Users, s \in Slots :
        /\ followers[t] # <<>>
        /\ Len(followers[t][1]) = 2
        /\ FollowOf(req[s], "Follow")
        /\ req[s].in.target = t
        /\ req[s].put = "applied"
        /\ InvokingUser(req[s].in) \in Range(req[s].existing[1])

DeetOf(r) == Verified(r) /\ r.in.type = ApplicationCommand /\ r.in.dtype = ChatInput /\ r.in.name = "deet"

\* C6: every POST of a broadcast goes to the url of the follower's most recently
\* completed setwebhook at the time the broadcast looks the follower up: after
\* setwebhook url1 then setwebhook url2 by U, a broadcast that looks U up posts
\* to url2 and not to url1; a follower is skipped only if it never set one.
C6_WebhookLastWriteWins ==
    [][\A s \in Slots : \A i \in 1..Len(req[s].att) :
          ( /\ DeetOf(req[s])
            /\ req[s].att[i].st = "get"
            /\ req'[s].att[i].st \in {"fetch", "settled"} ) =>
              LET h == whHist[req[s].att[i].follower]
                  sent == req'[s].att[i].sent
              IN  IF h = <<>> THEN sent = <<>>
                  ELSE /\ Len(sent) = 1
                       /\ sent[1].url = h[Len(h)]
                       /\ (Len(h) = 2 /\ h[1] # h[2]) => sent[1].url # h[1]]_vars

C6_Witness ==
    \E s \in Slots : \E i \in 1..Len(req[s].att) :
        LET h == whHist[req[s].att[i].follower]
        IN  /\ DeetOf(req[s])
            /\ Len(h) = 2
            /\ h[1] # h[2]
            /\ Len(req[s].att[i].sent) = 1
            /\ req[s].att[i].sent[1].url = h[2]
            /\ webhooks[req[s].att[i].follower] = <<h[2]>>

\* C7: a broadcast that read an absent or empty follower set starts no
\* delivery attempt, issues no POST and no webhooks lookup (its only store
\* operation is the followers get), and has returned the ephemeral
\* "deet sent" acknowledgement.
C7_EmptyBroadcast ==
    \A s \in Slots :
        DeetOf(req[s]) /\ req[s].existing = << <<>> >> =>
            /\ req[s].att = <<>>
            /\ req[s].ops = {<<"followers", "get", InvokingUser(req[s].in)>>}
            /\ req[s].pc = "done"
            /\ IsAck(req[s].resp, <<"deet sent">>)

C7_Witness ==
    \E s, t \in Slots :
        /\ DeetOf(req[s]) /\ req[s].existing = << <<>> >> /\ req[s].pc = "done"
        /\ followers[InvokingUser(req[s].in)] = <<>>
        /\ DeetOf(req[t]) /\ req[t].existing = << <<>> >> /\ req[t].pc = "done"
        /\ followers[InvokingUser(req[t].in)] = << <<>> >>

RECURSIVE NumPosts(_)
\* the outbound POSTs issued so far by the attempts att
NumPosts(att) ==
    IF att = <<>> THEN 0
    ELSE Len(att[Len(att)].sent) + NumPosts(SubSeq(att, 1, Len(att) - 1))

AllSettled(r) == \A i \in 1..Len(r.att) : Settled(r.att[i])

C9_DeliveryFailureSwallowed ==
    \A s \in Slots :
        ( /\ DeetOf(req[s])
          /\ req[s].existing # <<>>
          /\ \A i \in 1..Len(req[s].att) : req[s].att[i].out # "rejected" ) =>
            /\ req[s].pc \in {"all", "done"}
            /\ req[s].pc = "done" => IsAck(req[s].resp, <<"deet sent">>)
            /\ AllSettled(req[s]) => req[s].pc = "done"

C9_Witness ==
    \E s, t \in Slots :
        /\ DeetOf(req[s])
        /\ Len(req[s].att) = 1
        /\ req[s].att[1].out = "notok"
        /\ IsAck(req[s].resp, <<"deet sent">>)
        /\ DeetOf(req[t])
        /\ Len(req[t].att) = 1
        /\ req[t].att[1].out = "exception"
        /\ IsAck(req[t].resp, <<"deet sent">>)

\* C10: every per-follower attempt of a broadcast is started as soon as the
\* follower set is read, and the broadcast has a response (acknowledgement or
\* error) only when every attempt has settled.
C10_FanInBeforeResponse ==
    \A s \in Slots :
        DeetOf(req[s]) /\ req[s].existing # <<>> =>
            /\ Len(req[s].att) = Len(req[s].existing[1])
            /\ req[s].pc = "done" => AllSettled(req[s])

\* the attempts of request r made for follower a
AttemptsFor(r, a) == {i \in 1..Len(r.att) : r.att[i].follower = a}

\* C11: when A's setwebhook, A's Follow of B and B's deet are the only requests,
\* and the deet arrived after the Follow was acknowledged and A's url was
\* registered, then the deet, once acknowledged, has sent exactly one POST for
\* A, to A's url, with content = the deet's content, allowed_mentions.parse = []
\* and username = B's username # B's discriminator.
C11_FollowThenBroadcast ==
    \A b \in Slots :
        ( /\ DeetOf(req[b])
          /\ nreq <= 3
          /\ IsAck(req[b].resp, <<"deet sent">>) ) =>
            \A a \in req[b].due :
                /\ Cardinality(AttemptsFor(req[b], a)) = 1
                /\ \A i \in AttemptsFor(req[b], a) :
                      LET sent == req[b].att[i].sent
                          u == ApiUser(InvokingUser(req[b].in))
                      IN  /\ Len(sent) = 1
                          /\ <<sent[1].url>> = webhooks[a]
                          /\ sent[1].body.content = req[b].in.content
                          /\ sent[1].body.allowed_mentions.parse = <<>>
                          /\ sent[1].body.username = <<u.username, "#", u.discriminator>>

\* the I/O a request is waiting for: its body, a store call, or a delivery
Waiting(r) ==
    \/ r.pc \in {"text", "get", "put"}
    \/ r.pc = "all" /\ \E i \in 1..Len(r.att) : ~Settled(r.att[i])

\* C12: a request has no response while it waits for its body, a store call or
\* its deliveries, and exactly one from then on: a Pong or an ephemeral
\* acknowledgement (200) or an error (500), which no later step of the request
\* replaces; a request that waits for nothing has its response.
C12_ExactlyOneOutcome ==
    /\ [](\A s \in Slots :
            Active(req[s]) =>
                /\ req[s].pc = "done" \/ Waiting(req[s])
                /\ req[s].pc # "done" => req[s].resp = <<>>
                /\ req[s].pc = "done" =>
                       /\ Len(req[s].resp) = 1
                       /\ \/ IsError(req[s].resp)
                          \/ /\ req[s].resp[1].status = 200
                             /\ req[s].resp[1].type = Pong
                          \/ /\ req[s].resp[1].status = 200
                             /\ req[s].resp[1].type = ChannelMessageWithSource
                             /\ req[s].resp[1].flags = Ephemeral)
    /\ [][\A s \in Slots :
            req[s].resp # <<>> => req'[s].resp = req[s].resp \/ req'[s].pc = "idle"]_vars

C12_Witness ==
    \E s \in Slots :
        /\ DeetOf(req[s])
        /\ IsError(req[s].resp)
        /\ Len(req[s].att) = 2
        /\ AllSettled(req[s])
        /\ \E i \in 1..2 : req[s].att[i].out = "skipped"

\* two Follow / Unfollow requests on one target that both read the same stored
\* value, a's write applied and b's still to be applied
ReadBeforeWrite(a, b) ==
    /\ a # b
    /\ Verified(req[a]) /\ IsFollow(req[a])
    /\ Verified(req[b]) /\ IsFollow(req[b])
    /\ req[a].in.target = req[b].in.target
    /\ req[a].existing # <<>>
    /\ req[a].existing = req[b].existing
    /\ req[a].put = "applied"
    /\ req[b].put = "pending"

\* C13: when two Follow / Unfollow requests on one target both read the follower
\* set before either wrote, the store holds after the second write exactly the
\* array the second writer computed from what it read; a follower that only
\* the first writer added is not in it.
C13_LastWriterWins ==
    [][\A a, b \in Slots :
          ReadBeforeWrite(a, b) /\ req'[b].put = "applied" =>
              /\ followers'[req[b].in.target] = req[b].written
              /\ ( /\ req[a].in.name = "Follow"
                   /\ InvokingUser(req[a].in) # InvokingUser(req[b].in)
                   /\ InvokingUser(req[a].in) \notin Range(req[a].existing[1]) ) =>
                     InvokingUser(req[a].in) \notin Range(OrEmpty(followers'[req[b].in.target]))]_vars

C13_Witness ==
    \E a, b \in Slots :
        /\ a # b
        /\ FollowOf(req[a], "Follow") /\ FollowOf(req[b], "Follow")
        /\ req[a].in.target = req[b].in.target
        /\ InvokingUser(req[a].in) # InvokingUser(req[b].in)
        /\ req[a].existing = << <<>> >>
        /\ req[b].existing = << <<>> >>
        /\ req[a].put = "applied"
        /\ req[b].put = "applied"
        /\ followers[req[a].in.target] = << <<InvokingUser(req[b].in)>> >>

\* C14: a Follow or Unfollow request has its acknowledgement only when its put
\* of the updated follower set has been applied to the store.
C14_WriteBeforeAck ==
    \A s \in Slots :
        ( /\ Verified(req[s]) /\ IsFollow(req[s])
          /\ req[s].resp # <<>>
          /\ req[s].resp[1].status = 200 ) =>
            req[s].put = "applied"

\* a verified interaction that no branch of the dispatch handles
BadShape(r) ==
    /\ Verified(r)
    /\ \/ r.in.type \notin {Ping, ApplicationCommand}
       \/ /\ r.in.type = ApplicationCommand
          /\ \/ r.in.dtype \notin {User, ChatInput}
             \/ r.in.dtype = User /\ r.in.name \notin {"Follow", "Unfollow"}
             \/ r.in.dtype = ChatInput /\ r.in.name \notin {"deet", "setwebhook"}

\* C15: a verified interaction of an unknown type, command-data type, user
\* command name or chat-input command name is only ever waiting for its body
\* or answered with HTTP 500, and issues no get, no put and no POST.
C15_ShapeRejection ==
    \A s \in Slots :
        BadShape(req[s]) =>
            /\ req[s].pc \in {"text", "done"}
            /\ req[s].pc = "done" => IsError(req[s].resp) /\ req[s].parsed
            /\ req[s].ops = {}
            /\ req[s].put = "none"
            /\ req[s].att = <<>>

C15_Witness ==
    \E s, t \in Slots :
        /\ BadShape(req[s]) /\ req[s].pc = "done"
        /\ req[s].in.dtype = User /\ req[s].in.name = "Block"
        /\ BadShape(req[t]) /\ req[t].pc = "done"
        /\ req[t].in.dtype = ChatInput /\ req[t].in.name = "follow"

\* C16: a request whose method is not POST is answered 500 "Expected POST
\* request" as soon as it is received, whatever its signature headers: it
\* never waits for its body, is never verified or parsed and issues no store
\* operation.
C16_MethodGateFirst ==
    \A s \in Slots :
        Active(req[s]) /\ req[s].in.method # "POST" =>
            /\ req[s].pc = "done"
            /\ req[s].resp = <<[status |-> 500, type |-> 0,
                                content |-> <<"Expected POST request">>, flags |-> 0]>>
            /\ ~req[s].parsed
            /\ req[s].ops = {}
            /\ req[s].put = "none"
            /\ req[s].att = <<>>

C16_Witness ==
    \E s, t \in Slots :
        /\ req[s].pc = "done" /\ req[s].in.method = "GET" /\ req[s].in.sig = "none"
        /\ req[t].pc = "done" /\ req[t].in.method = "GET" /\ req[t].in.sig = "good"

\* the store operations command r may issue
Frame(r) ==
    CASE r.in.dtype = User ->
             {<<"followers", "get", r.in.target>>, <<"followers", "put", r.in.target>>}
      [] r.in.dtype = ChatInput /\ r.in.name = "setwebhook" ->
             {<<"webhooks", "put", InvokingUser(r.in)>>}
      [] r.in.dtype = ChatInput /\ r.in.name = "deet" ->
             {<<"followers", "get", InvokingUser(r.in)>>}
                 \cup {<<"webhooks", "get", a>> : a \in Range(OrEmpty(r.existing))}
      [] OTHER -> {}

\* C17: Follow / Unfollow(F, T) only get and put key T of followers; setwebhook
\* by U only puts key U of webhooks; a deet only gets its invoker's followers
\* key and the webhooks keys of the followers it read; and a step changes the
\* stores only at key T of followers, by the put of a Follow / Unfollow on T, or
\* at key U of webhooks, by the put of a setwebhook of U.
C17_CommandFrames ==
    /\ [](\A s \in Slots : Active(req[s]) => req[s].ops \subseteq Frame(req[s]))
    /\ [][ /\ \A k \in Users :
                followers'[k] # followers[k] =>
                    /\ webhooks' = webhooks
                    /\ \A j \in Users : j # k => followers'[j] = followers[j]
                    /\ \E s \in Slots :
                          /\ Verified(req[s]) /\ IsFollow(req[s])
                          /\ req[s].in.target = k
                          /\ req[s].put = "pending" /\ req'[s].put = "applied"
           /\ \A k \in Users :
                webhooks'[k] # webhooks[k] =>
                    /\ followers' = followers
                    /\ \A j \in Users : j # k => webhooks'[j] = webhooks[j]
                    /\ \E s \in Slots :
                          /\ Verified(req[s])
                          /\ req[s].in.dtype = ChatInput /\ req[s].in.name = "setwebhook"
                          /\ InvokingUser(req[s].in) = k
                          /\ req[s].pc = "put" /\ req'[s].pc = "done" ]_vars

C17_Witness ==
    \E s, t \in Slots :
        /\ FollowOf(req[s], "Follow") /\ req[s].put = "applied"
        /\ InvokingUser(req[s].in) # req[s].in.target
        /\ DeetOf(req[t]) /\ req[t].pc = "done" /\ Len(req[t].att) = 1
        /\ <<"webhooks", "get", InvokingUser(req[s].in)>> \in req[t].ops
        /\ webhooks[InvokingUser(req[s].in)] # <<>>

\* the broadcast in slot b takes a step that sends the POST of attempt i
Posts(b, i) ==
    /\ DeetOf(req[b])
    /\ i \in 1..Len(req[b].att)
    /\ req[b].att[i].st = "get"
    /\ req'[b].att[i].st = "fetch"

\* the broadcast in slot b takes the step that reads its follower set
ReadsFollowers(b) ==
    /\ DeetOf(req[b])
    /\ req[b].existing = <<>>
    /\ req'[b].existing # <<>>

\* A's Unfollow of B is applied to the store and no Follow on B arrived after it
Unfollowed(a, b) ==
    \E t \in Slots :
        /\ FollowOf(req[t], "Unfollow")
        /\ InvokingUser(req[t].in) = a
        /\ req[t].in.target = b
        /\ req[t].put = "applied"
        /\ ~req[t].later

C19_BroadcastResponds ==
    \A s \in Slots :
        (DeetOf(req[s]) /\ req[s].pc # "done") ~> (req[s].pc = "done")

C19_Witness ==
    \E s \in Slots :
        /\ DeetOf(req[s]) /\ req[s].pc = "done"
        /\ IsAck(req[s].resp, <<"deet sent">>)
        /\ Len(req[s].att) = 1
        /\ req[s].att[1].out = "notok"
        /\ Len(req[s].att[1].sent) = 1

====
